---- MODULE Spec2Model ----
(***************************************************************************)
(* A model of the autocomplete trie of src/trie.go: the node tree, the     *)
(* original-form registry, the canonicalisation of inserted and searched   *)
(* strings, insertion, deletion with pruning, exact lookup, and the        *)
(* recursive search with its ranking, limiting and expansion.              *)
(*                                                                         *)
(* A Go string is a sequence of code points (valid UTF-8 only, so that a   *)
(* range over the string and []rune(s) see the same runes).  A node is     *)
(* named by the path of runes that leads to it from the root: every node   *)
(* is owned by exactly one parent, so the path identifies the pointer.     *)
(***************************************************************************)
EXTENDS Integers, Sequences, FiniteSets, TLC

\* ------------------------------------------------------------------ bounds

\* Longest inserted, deleted, looked-up or searched string, in runes.
MaxLen == 2
\* Most original strings inserted and not yet deleted.
MaxEntries == 2
\* Most entries of one Insert(entries...) or BulkInsertWithMeta(entries) call.
MaxBatch == 2
\* Largest limit given to Search.
MaxLimit == 2

\* ------------------------------------------------------------------ runes

\* '*', the rune collect treats as a wildcard.
Wildcard == 42
\* utf8.RuneError, what utf8.DecodeRuneInString returns for the empty string.
RuneError == 65533
\* U+0301 COMBINING ACUTE ACCENT, of category Mn.
CombiningAcute == 769

\* The letters 'A' and 'a' and the combining mark: the runes of the strings
\* that are inserted, deleted and looked up.
Alphabet == {65, 97, CombiningAcute}

\* unicode.Mn restricted to the alphabet.
Mn == {CombiningAcute}

EmptyString == << >>

RECURSIVE StringsUpTo(_, _)
StringsUpTo(S, n) ==
  IF n = 0 THEN {EmptyString}
  ELSE LET shorter == StringsUpTo(S, n - 1)
       IN shorter \cup {Append(s, r) : s \in shorter, r \in S}

\* The non-empty strings given to the mutating calls and to FindMeta.
Words == StringsUpTo(Alphabet, MaxLen) \ {EmptyString}

\* The strings given to the search calls: the empty string and the wildcard too.
Queries == StringsUpTo(Alphabet \cup {Wildcard}, MaxLen)

\* interface{} values: nil, and two values a caller attaches.
Nil == "nil"
Metas == {"m1", "m2"}

\* Go's < on strings: bytewise on UTF-8, which is the order of the code points.
RECURSIVE StrLess(_, _)
StrLess(a, b) ==
  IF b = EmptyString THEN FALSE
  ELSE IF a = EmptyString THEN TRUE
  ELSE IF Head(a) # Head(b) THEN Head(a) < Head(b)
  ELSE StrLess(Tail(a), Tail(b))

\* ------------------------------------------------------- canonicalisation

\* runes.Remove(runes.In(unicode.Mn)) between norm.NFD and norm.NFC: over the
\* alphabet nothing decomposes or composes, and the marks are dropped.
RECURSIVE transformString(_)
transformString(s) ==
  IF s = EmptyString THEN EmptyString
  ELSE IF Head(s) \in Mn THEN transformString(Tail(s))
  ELSE <<Head(s)>> \o transformString(Tail(s))

\* unicode.ToLower of one rune.
toLowerRune(r) == IF r = 65 THEN 97 ELSE r

\* strings.ToLower
RECURSIVE ToLower(_)
ToLower(s) ==
  IF s = EmptyString THEN EmptyString
  ELSE <<toLowerRune(Head(s))>> \o ToLower(Tail(s))

\* The switch of insertInternal, Delete and FindMeta, and the two ifs of Search
\* and SearchAllMeta: the key a string is stored and looked up under.
canonical(s, norm, cs) ==
  LET n == IF norm THEN transformString(s) ELSE s
  IN IF cs THEN n ELSE ToLower(n)

\* ------------------------------------------------------------ the node tree

\* A tree of nodes is a function from the paths of its nodes to their fields
\* (type node: the children map is the set of paths one rune longer).
newNode == [word |-> EmptyString, meta |-> Nil]

\* New: a root with an empty children map.
NewRoot == (EmptyString :> newNode)

\* node.children[r] is present.
hasChild(nodes, path, r) == Append(path, r) \in DOMAIN nodes

\* The keys of node.children.
childRunes(nodes, path) ==
  {q[Len(q)] : q \in {x \in DOMAIN nodes : Len(x) = Len(path) + 1
                                          /\ SubSeq(x, 1, Len(path)) = path}}

\* A Go map read: the zero value for a missing key.
originalsOf(dict, key) == IF key \in DOMAIN dict THEN dict[key] ELSE << >>

\* t.originalDict[key] = append(t.originalDict[key], entry)
registerOriginal(dict, key, entry) ==
  [k \in DOMAIN dict \cup {key} |->
     IF k = key THEN Append(originalsOf(dict, key), entry) ELSE dict[k]]

\* The loop of insertInternal from rune i on, currentNode being the node at
\* SubSeq(entry, 1, i - 1): a missing child is created, and only a child
\* created for the last rune gets the word and the metadata.
RECURSIVE insertWalk(_, _, _, _)
insertWalk(nodes, entry, meta, i) ==
  IF i > Len(entry) THEN nodes
  ELSE LET child == SubSeq(entry, 1, i)
           made  == IF i = Len(entry) THEN [word |-> entry, meta |-> meta]
                    ELSE newNode
       IN IF child \in DOMAIN nodes
          THEN insertWalk(nodes, entry, meta, i + 1)
          ELSE insertWalk(nodes @@ (child :> made), entry, meta, i + 1)

\* An insert that leaves the metadata of a stored word as it was.
insertFinishKeepsMeta(nodes, entry, meta) == nodes

\* The end of insertInternal: the metadata is written when the node reached
\* already holds the entry as its word.
insertFinish(nodes, entry, meta) ==
  IF nodes[entry].word = entry
  THEN [nodes EXCEPT ![entry].meta = meta]
  ELSE nodes

\* insertInternal on the pair (node tree, registry) under a configuration.
\* transform.String returns no error for a string of valid UTF-8, so the two
\* early returns on err are never taken here.
insertInternal(t, norm, cs, entry, meta) ==
  IF Len(entry) = 0 THEN t
  ELSE LET key  == canonical(entry, norm, cs)
           dict == IF (~norm) /\ cs THEN t.dict
                   ELSE registerOriginal(t.dict, key, entry)
       IN [nodes |-> insertFinish(insertWalk(t.nodes, key, meta, 1), key, meta),
           dict  |-> dict]

\* A pruning that removes every node of the path below the root.
pruneWholePath(nodes, word, i) ==
  [q \in DOMAIN nodes \ {SubSeq(word, 1, j) : j \in 1..i} |-> nodes[q]]

\* The prune loop of Delete at index i: the child at SubSeq(word, 1, i) is
\* removed from its parent while it has no children and no word.
RECURSIVE prune(_, _, _)
prune(nodes, word, i) ==
  IF i = 0 THEN nodes
  ELSE LET child == SubSeq(word, 1, i)
       IN IF childRunes(nodes, child) = {} /\ nodes[child].word = EmptyString
          THEN prune([q \in DOMAIN nodes \ {child} |-> nodes[q]], word, i - 1)
          ELSE nodes

\* Delete after the lock is taken: the registry entry goes first, then the
\* walk, which returns at a missing child, then the clearing and the pruning.
deleteInternal(t, norm, cs, raw) ==
  LET word == canonical(raw, norm, cs)
      dict == [k \in DOMAIN t.dict \ {word} |-> t.dict[k]]
  IN IF word \notin DOMAIN t.nodes
     THEN [nodes |-> t.nodes, dict |-> dict]
     ELSE [nodes |-> prune([t.nodes EXCEPT ![word] = newNode], word, Len(word)),
           dict  |-> dict]

\* FindMeta: (metadata, found).
findMeta(t, norm, cs, raw) ==
  LET word == canonical(raw, norm, cs)
  IN IF word \notin DOMAIN t.nodes THEN <<Nil, FALSE>>
     ELSE IF t.nodes[word].word = word THEN <<t.nodes[word].meta, TRUE>>
     ELSE <<Nil, FALSE>>

\* ------------------------------------------------------------------ search

\* A collection is the map the recursion fills (scores: word -> score, with
\* the node's metadata for collectMeta), and beside it, for the statements
\* about traversal paths, every record any path offered: <<word, distance,
\* whether the path took a fuzzy descent>>.  The code keeps no such set.
emptyCollection == [scores |-> << >>, paths |-> {}]

\* The map is passed by reference and written as the recursion goes: every
\* call starts from the collection as its predecessors left it.
isCollection(c) == DOMAIN c = {"scores", "paths"}

\* The map update of collect, collectMeta and the two descendant collectors:
\* a word is written when it is new, or reached at a smaller distance, or at
\* the same distance without the fuzzy flag where the kept record has it.
keepScore(c, word, meta, distance, fuzzyUsed, relaxed) ==
  LET known   == word \in DOMAIN c.scores
      replace == \/ ~known
                 \/ distance < c.scores[word].levenshtein
                 \/ /\ distance = c.scores[word].levenshtein
                    /\ c.scores[word].fuzzy
                    /\ ~fuzzyUsed
      made    == [levenshtein |-> distance, fuzzy |-> fuzzyUsed, meta |-> meta]
  IN [scores |-> IF replace
                 THEN [w \in DOMAIN c.scores \cup {word} |->
                         IF w = word THEN made ELSE c.scores[w]]
                 ELSE c.scores,
      paths  |-> c.paths \cup {<<word, distance, relaxed>>}]

\* The children of a node in the order a range over the map yields them: the
\* runes of ord that are keys of node.children.
childOrder(nodes, path, ord) ==
  SelectSeq(ord, LAMBDA r : hasChild(nodes, path, r))

\* collectAllDescendentWords / collectAllDescendentWordsMeta: the loop over
\* the children from position i of kids on.
RECURSIVE collectAllDescendentWords(_, _, _, _, _, _, _, _)
collectAllDescendentWords(c, nodes, path, kids, i, distance, fuzzyUsed, env) ==
  IF i > Len(kids) \/ ~isCollection(c) THEN c
  ELSE LET next  == Append(path, kids[i])
           c1    == IF nodes[next].word # EmptyString
                    THEN keepScore(c, nodes[next].word, nodes[next].meta,
                                   distance, fuzzyUsed, env.relaxed)
                    ELSE c
           c2    == collectAllDescendentWords(c1, nodes, next,
                       childOrder(nodes, next, env.ord), 1, distance, fuzzyUsed, env)
       IN collectAllDescendentWords(c2, nodes, path, kids, i + 1, distance, fuzzyUsed, env)

\* utf8.DecodeRuneInString(word) and word[size:].
decodeRune(word) == IF word = EmptyString THEN RuneError ELSE Head(word)
restOf(word) == IF word = EmptyString THEN EmptyString ELSE Tail(word)

RECURSIVE collect(_, _, _, _, _, _, _, _, _)
RECURSIVE editLoop(_, _, _, _, _, _, _, _, _, _, _, _)
RECURSIVE fuzzyLoop(_, _, _, _, _, _, _, _, _, _)

\* collect / collectMeta.  env holds what the recursion never changes: the
\* order the children are ranged over (ord), and in env.relaxed whether the
\* path so far took a fuzzy descent.
collect(c, word, nodes, path, distance, maxDistance, fuzzyAllowed, fuzzyUsed, env) ==
  LET node      == nodes[path]
      kids      == childOrder(nodes, path, env.ord)
      terminal  == Len(word) = 0 /\ node.word # EmptyString
      atEnd     == IF Len(word) # 0 THEN c
                   ELSE collectAllDescendentWords(
                          IF node.word # EmptyString
                          THEN keepScore(c, node.word, node.meta, distance,
                                         fuzzyUsed, env.relaxed)
                          ELSE c,
                          nodes, path, kids, 1, distance, fuzzyUsed, env)
      character == decodeRune(word)
      subword   == restOf(word)
      star      == IF character = Wildcard
                   THEN collect(atEnd, subword, nodes, path, distance, maxDistance,
                                FALSE, fuzzyUsed, env)
                   ELSE atEnd
      exact     == IF hasChild(nodes, path, character)
                   THEN collect(star, subword, nodes, Append(path, character),
                                distance, maxDistance, FALSE, fuzzyUsed, env)
                   ELSE star
  IN IF terminal \/ ~isCollection(c) THEN atEnd
     ELSE IF distance < maxDistance
     THEN collect(editLoop(exact, word, subword, nodes, path, kids, 1,
                           distance + 1, maxDistance, fuzzyAllowed, fuzzyUsed, env),
                  subword, nodes, path, distance + 1, maxDistance, FALSE, FALSE, env)
     ELSE IF distance = 0
     THEN fuzzyLoop(exact, word, nodes, path, kids, 1, distance, maxDistance,
                    fuzzyAllowed, env)
     ELSE exact

\* The loop of the distance < maxDistance branch, distance already raised:
\* substitution, insertion, and the fuzzy descent at the distance before.
editLoop(c, word, subword, nodes, path, kids, i, distance, maxDistance, fuzzyAllowed, fuzzyUsed, env) ==
  IF i > Len(kids) \/ ~isCollection(c) THEN c
  ELSE LET character == kids[i]
           subst     == collect(c, <<character>> \o subword, nodes, path, distance,
                                maxDistance, FALSE, fuzzyUsed, env)
           insert    == collect(subst, <<character>> \o word, nodes, path, distance,
                                maxDistance, FALSE, fuzzyUsed, env)
           fuzz      == IF fuzzyAllowed
                        THEN collect(insert, word, nodes, Append(path, character),
                                     distance - 1, maxDistance, TRUE, TRUE,
                                     [env EXCEPT !.relaxed = TRUE])
                        ELSE insert
       IN editLoop(fuzz, word, subword, nodes, path, kids, i + 1, distance,
                   maxDistance, fuzzyAllowed, fuzzyUsed, env)

\* The loop of the distance == 0 branch: the fuzzy descent alone.
fuzzyLoop(c, word, nodes, path, kids, i, distance, maxDistance, fuzzyAllowed, env) ==
  IF i > Len(kids) \/ ~isCollection(c) THEN c
  ELSE LET fuzz == IF fuzzyAllowed
                   THEN collect(c, word, nodes, Append(path, kids[i]), distance,
                                maxDistance, TRUE, TRUE, [env EXCEPT !.relaxed = TRUE])
                   ELSE c
       IN fuzzyLoop(fuzz, word, nodes, path, kids, i + 1, distance, maxDistance,
                    fuzzyAllowed, env)

\* A scan that always stops at the last threshold of the list.
maxDistanceLastInterval(scheme, intervals, i, n) ==
  IF intervals = << >> THEN 0 ELSE scheme[intervals[Len(intervals)]]

\* maxDistance: the first interval the search string is at least as long as
\* decides; a map read of a missing key and a scan that finds no interval
\* both give 0.
RECURSIVE maxDistanceFrom(_, _, _, _)
maxDistanceFrom(scheme, intervals, i, n) ==
  IF i > Len(intervals) THEN 0
  ELSE IF n >= intervals[i]
  THEN (IF intervals[i] \in DOMAIN scheme THEN scheme[intervals[i]] ELSE 0)
  ELSE maxDistanceFrom(scheme, intervals, i + 1, n)

maxDistance(scheme, intervals, search) ==
  maxDistanceFrom(scheme, intervals, 1, Len(search))

\* The less function of the two sort.Slice calls.
hitLess(scores, a, b) ==
  IF scores[a].levenshtein # scores[b].levenshtein
  THEN scores[a].levenshtein < scores[b].levenshtein
  ELSE IF scores[a].fuzzy /\ ~scores[b].fuzzy THEN FALSE
  ELSE IF (~scores[a].fuzzy) /\ scores[b].fuzzy THEN TRUE
  ELSE StrLess(a, b)

\* sort.Slice over the keys of the collection: hitLess is a strict total
\* order on distinct words, so the sorted slice is the same whatever order
\* the range over the map produced.
RECURSIVE sortHits(_, _)
sortHits(scores, words) ==
  IF words = {} THEN << >>
  ELSE LET first == CHOOSE a \in words :
                      \A b \in words \ {a} : hitLess(scores, a, b)
       IN <<first>> \o sortHits(scores, words \ {first})

\* The collection of a search: the canonical query, its budget, the recursion
\* from the root.
collectionOf(t, cfg, raw, ord) ==
  LET search == canonical(raw, cfg.normalised, cfg.caseSensitive)
  IN collect(emptyCollection, search, t.nodes, EmptyString, 0,
             maxDistance(cfg.levenshteinScheme, cfg.levenshteinIntervals, search),
             cfg.fuzzy, FALSE, [ord |-> ord, relaxed |-> FALSE])

\* The ranked canonical hits of a search.
rankedHits(t, cfg, raw, ord) ==
  LET scores == collectionOf(t, cfg, raw, ord).scores
  IN sortHits(scores, DOMAIN scores)

\* originals = append(originals, t.originalDict[hit]...) over the hits.
RECURSIVE expand(_, _)
expand(dict, hits) ==
  IF hits = << >> THEN << >>
  ELSE originalsOf(dict, Head(hits)) \o expand(dict, Tail(hits))

\* Search(search, limit), limit >= 0.
search(t, cfg, raw, limit, ord) ==
  IF Len(raw) = 0 THEN << >>
  ELSE LET hits == rankedHits(t, cfg, raw, ord)
       IN IF Len(hits) >= limit /\ limit # 0 THEN SubSeq(hits, 1, limit)
          ELSE IF (~cfg.normalised) /\ cfg.caseSensitive THEN hits
          ELSE expand(t.dict, hits)

\* The expansion loop of SearchAllMeta: a hit without originals stands for itself.
RECURSIVE expandMeta(_, _, _)
expandMeta(dict, scores, hits) ==
  IF hits = << >> THEN << >>
  ELSE LET hit       == Head(hits)
           originals == originalsOf(dict, hit)
           rows      == IF Len(originals) = 0
                        THEN <<[Word |-> hit, Meta |-> scores[hit].meta]>>
                        ELSE [i \in 1..Len(originals) |->
                                [Word |-> originals[i], Meta |-> scores[hit].meta]]
       IN rows \o expandMeta(dict, scores, Tail(hits))

\* SearchAllMeta(search)
searchAllMeta(t, cfg, raw, ord) ==
  IF Len(raw) = 0 THEN << >>
  ELSE LET scores == collectionOf(t, cfg, raw, ord).scores
           hits   == sortHits(scores, DOMAIN scores)
       IN IF (~cfg.normalised) /\ cfg.caseSensitive
          THEN [i \in 1..Len(hits) |-> [Word |-> hits[i], Meta |-> scores[hits[i]].meta]]
          ELSE expandMeta(t.dict, scores, hits)

\* ------------------------------------------------------------------- state

VARIABLES
  root,                  \* t.root and the nodes below it: path -> fields
  originalDict,          \* t.originalDict: canonical key -> original strings
  fuzzy,                 \* t.fuzzy
  normalised,            \* t.normalised
  caseSensitive,         \* t.caseSensitive
  levenshteinScheme,     \* t.levenshteinScheme: threshold -> distance
  levenshteinIntervals,  \* t.levenshteinIntervals
  mu,                    \* t.mu: 0 when unlocked, else the goroutine holding it
  goroutines,            \* each goroutine's call in progress
  panicked,              \* a panic ended the program
  last,                  \* the call that returned last, with what it returned
  hist                   \* per canonical key, what was inserted since its last Delete

vars == <<root, originalDict, fuzzy, normalised, caseSensitive, levenshteinScheme,
          levenshteinIntervals, mu, goroutines, panicked, last, hist>>

trie == [nodes |-> root, dict |-> originalDict]

config == [fuzzy |-> fuzzy, normalised |-> normalised, caseSensitive |-> caseSensitive,
           levenshteinScheme |-> levenshteinScheme,
           levenshteinIntervals |-> levenshteinIntervals]

\* The orders a range over a children map is let to take here: ascending and
\* descending code points.
ChildOrders == {<<Wildcard, 65, 97, CombiningAcute>>,
                <<CombiningAcute, 97, 65, Wildcard>>}

call(op, word, meta, result) ==
  [op |-> op, word |-> word, meta |-> meta, limit |-> 0, result |-> result]

\* What hist becomes by one insert and by one delete: the originals given
\* under a key in the order given, and the metadata given last.
histInsert(h, norm, cs, entry, meta) ==
  LET key == canonical(entry, norm, cs)
      old == IF key \in DOMAIN h THEN h[key].originals ELSE << >>
  IN [k \in DOMAIN h \cup {key} |->
        IF k = key THEN [originals |-> Append(old, entry), meta |-> meta] ELSE h[k]]

histDelete(h, norm, cs, word) ==
  [k \in DOMAIN h \ {canonical(word, norm, cs)} |-> h[k]]

RECURSIVE histInsertAll(_, _, _, _)
histInsertAll(h, norm, cs, batch) ==
  IF batch = << >> THEN h
  ELSE histInsertAll(histInsert(h, norm, cs, Head(batch).word, Head(batch).meta),
                     norm, cs, Tail(batch))

RECURSIVE sumLen(_, _)
sumLen(h, keys) ==
  IF keys = {} THEN 0
  ELSE LET k == CHOOSE x \in keys : TRUE
       IN Len(h[k].originals) + sumLen(h, keys \ {k})

entryCount == sumLen(hist, DOMAIN hist)

\* The loops of Insert and BulkInsertWithMeta: insertInternal entry by entry.
RECURSIVE insertAll(_, _, _, _)
insertAll(t, norm, cs, batch) ==
  IF batch = << >> THEN t
  ELSE insertAll(insertInternal(t, norm, cs, Head(batch).word, Head(batch).meta),
                 norm, cs, Tail(batch))

\* Insert(entries...): the entries in the order given, each with nil.
RECURSIVE withNil(_)
withNil(ws) ==
  IF ws = << >> THEN << >>
  ELSE <<[word |-> Head(ws), meta |-> Nil]>> \o withNil(Tail(ws))

WordSeqs == StringsUpTo(Words, MaxBatch) \ {EmptyString}

\* BulkInsertWithMeta(entries): the entries of the map, in the order the
\* range over the map takes.
BulkBatches ==
  {b \in StringsUpTo([word : Words, meta : Metas], MaxBatch) \ {EmptyString} :
     \A i, j \in 1..Len(b) : i # j => b[i].word # b[j].word}

\* sort.Slice with >: the keys of the scheme in descending order.
RECURSIVE descending(_)
descending(keys) ==
  IF keys = {} THEN << >>
  ELSE LET top == CHOOSE k \in keys : \A other \in keys : other <= k
       IN <<top>> \o descending(keys \ {top})

\* The two fields DefaultLevenshtein writes.
defaultScheme ==
  [levenshteinScheme |-> (0 :> 0) @@ (3 :> 1) @@ (5 :> 2),
   levenshteinIntervals |-> <<5, 3, 5>>]

\* The two fields WithoutLevenshtein writes.
zeroScheme == [levenshteinScheme |-> (0 :> 0), levenshteinIntervals |-> <<0>>]

\* A CustomLevenshtein that keeps the thresholds of WithoutLevenshtein.
customSchemeStaleIntervals(scheme) ==
  [levenshteinScheme |-> scheme, levenshteinIntervals |-> <<0>>]

\* The two fields CustomLevenshtein writes for a scheme it accepts.
customScheme(scheme) ==
  [levenshteinScheme |-> scheme, levenshteinIntervals |-> descending(DOMAIN scheme)]

\* The thresholds and distances custom schemes are drawn from.
Thresholds == {0, 2}
Distances == {0, 1}
Schemes == UNION {[D -> Distances] : D \in (SUBSET Thresholds) \ {{}}}

\* ----------------------------------------------------------------- actions

idle == [pc |-> "idle", op |-> "none", batch |-> << >>, done |-> 0]

Goroutines == 1..2

\* New()
Init ==
  /\ root = NewRoot
  /\ originalDict = << >>
  /\ fuzzy = TRUE
  /\ normalised = TRUE
  /\ caseSensitive = FALSE
  /\ levenshteinScheme = defaultScheme.levenshteinScheme
  /\ levenshteinIntervals = defaultScheme.levenshteinIntervals
  /\ mu = 0
  /\ goroutines = [g \in Goroutines |-> idle]
  /\ panicked = FALSE
  /\ last = call("New", EmptyString, Nil, << >>)
  /\ hist = << >>

\* The calls that only read the trie.
ReadOps == {"FindMeta", "Search", "SearchAll", "SearchAllMeta", "collect"}

\* The calls of this section are made one at a time, by one goroutine: a
\* mutating call takes the lock, runs and releases it in one step.  A reading
\* call changes nothing but last, and what it returns depends on the trie and
\* the configuration alone: a run is followed up to its first reading call,
\* which reaches every trie and every pair of a trie and a reading call.
sequential == /\ ~panicked
              /\ mu = 0
              /\ \A g \in Goroutines : goroutines[g] = idle
              /\ last.op \notin ReadOps

\* The builder calls are chained on New, before the dictionary is filled.
configuring == sequential /\ hist = << >>

reading == sequential

concurrencyUnchanged == UNCHANGED <<mu, goroutines, panicked>>
storeUnchanged == UNCHANGED <<root, originalDict, hist>>
schemeUnchanged == UNCHANGED <<levenshteinScheme, levenshteinIntervals>>
flagsUnchanged == UNCHANGED <<fuzzy, normalised, caseSensitive>>
configUnchanged == flagsUnchanged /\ schemeUnchanged

setFlags(f, n, c, op) ==
  /\ configuring
  /\ fuzzy' = f /\ normalised' = n /\ caseSensitive' = c
  /\ last' = call(op, EmptyString, Nil, << >>)
  /\ storeUnchanged /\ schemeUnchanged /\ concurrencyUnchanged

WithFuzzy == setFlags(TRUE, normalised, caseSensitive, "WithFuzzy")
WithoutFuzzy == setFlags(FALSE, normalised, caseSensitive, "WithoutFuzzy")
WithNormalisation == setFlags(fuzzy, TRUE, caseSensitive, "WithNormalisation")
WithoutNormalisation == setFlags(fuzzy, FALSE, caseSensitive, "WithoutNormalisation")
CaseSensitive == setFlags(fuzzy, normalised, TRUE, "CaseSensitive")
CaseInsensitive == setFlags(fuzzy, normalised, FALSE, "CaseInsensitive")

setScheme(fields, op, given) ==
  /\ levenshteinScheme' = fields.levenshteinScheme
  /\ levenshteinIntervals' = fields.levenshteinIntervals
  /\ last' = call(op, EmptyString, Nil, given)
  /\ flagsUnchanged /\ storeUnchanged /\ concurrencyUnchanged

WithoutLevenshtein == configuring /\ setScheme(zeroScheme, "WithoutLevenshtein", << >>)

DefaultLevenshtein == configuring /\ setScheme(defaultScheme, "DefaultLevenshtein", << >>)

\* CustomLevenshtein(scheme): the panic comes before any field is written.
CustomLevenshtein ==
  /\ configuring
  /\ \E scheme \in Schemes :
       IF 0 \notin DOMAIN scheme
       THEN /\ panicked' = TRUE
            /\ last' = call("CustomLevenshtein", EmptyString, Nil, scheme)
            /\ UNCHANGED <<mu, goroutines>>
            /\ storeUnchanged /\ configUnchanged
       ELSE setScheme(customScheme(scheme), "CustomLevenshtein", scheme)

\* A mutating call that inserts batch, between Lock and Unlock.
insertBatch(batch, op, word, meta) ==
  /\ sequential
  /\ entryCount + Len(batch) <= MaxEntries
  /\ LET t == insertAll(trie, normalised, caseSensitive, batch)
     IN /\ root' = t.nodes
        /\ originalDict' = t.dict
  /\ hist' = histInsertAll(hist, normalised, caseSensitive, batch)
  /\ last' = call(op, word, meta, << >>)
  /\ configUnchanged /\ concurrencyUnchanged

\* Insert(entries...)
Insert == \E ws \in WordSeqs : insertBatch(withNil(ws), "Insert", ws[Len(ws)], Nil)

\* InsertWithMeta(word, meta)
InsertWithMeta ==
  \E w \in Words, m \in Metas :
    insertBatch(<<[word |-> w, meta |-> m]>>, "InsertWithMeta", w, m)

\* BulkInsertWithMeta(entries)
BulkInsertWithMeta ==
  \E b \in BulkBatches :
    insertBatch(b, "BulkInsertWithMeta", b[Len(b)].word, b[Len(b)].meta)

\* Delete(word)
Delete ==
  /\ sequential
  /\ \E w \in Words :
       /\ LET t == deleteInternal(trie, normalised, caseSensitive, w)
          IN /\ root' = t.nodes
             /\ originalDict' = t.dict
       /\ hist' = histDelete(hist, normalised, caseSensitive, w)
       /\ last' = call("Delete", w, Nil, << >>)
  /\ configUnchanged /\ concurrencyUnchanged

\* FindMeta(word)
FindMeta ==
  /\ reading
  /\ \E w \in Words :
       last' = call("FindMeta", w, Nil, findMeta(trie, normalised, caseSensitive, w))
  /\ storeUnchanged /\ configUnchanged /\ concurrencyUnchanged

\* The trie as a store: the flags the key depends on, the mutating calls and
\* the exact lookup.
Next ==
  \/ WithNormalisation \/ WithoutNormalisation \/ CaseSensitive \/ CaseInsensitive
  \/ Insert \/ InsertWithMeta \/ BulkInsertWithMeta \/ Delete \/ FindMeta

Spec == Init /\ [][Next]_vars

\* Search(search, limit) with a positive limit
Search ==
  /\ reading
  /\ \E q \in Queries, limit \in 1..MaxLimit, ord \in ChildOrders :
       last' = [call("Search", q, Nil, search(trie, config, q, limit, ord))
                  EXCEPT !.limit = limit]
  /\ storeUnchanged /\ configUnchanged /\ concurrencyUnchanged

\* SearchAll(search)
SearchAll ==
  /\ reading
  /\ \E q \in Queries, ord \in ChildOrders :
       last' = call("SearchAll", q, Nil, search(trie, config, q, 0, ord))
  /\ storeUnchanged /\ configUnchanged /\ concurrencyUnchanged

\* SearchAllMeta(search)
SearchAllMeta ==
  /\ reading
  /\ \E q \in Queries, ord \in ChildOrders :
       last' = call("SearchAllMeta", q, Nil, searchAllMeta(trie, config, q, ord))
  /\ storeUnchanged /\ configUnchanged /\ concurrencyUnchanged

\* New() followed by a chain of builder calls that leaves one of cfgs.
InitConfigured(flags, schemes) ==
  /\ root = NewRoot
  /\ originalDict = << >>
  /\ \E f \in flags :
       /\ fuzzy = f.fuzzy
       /\ normalised = f.normalised
       /\ caseSensitive = f.caseSensitive
  /\ \E sch \in schemes :
       /\ levenshteinScheme = sch.levenshteinScheme
       /\ levenshteinIntervals = sch.levenshteinIntervals
  /\ mu = 0
  /\ goroutines = [g \in Goroutines |-> idle]
  /\ panicked = FALSE
  /\ last = call("New", EmptyString, Nil, << >>)
  /\ hist = << >>

AllFlags == [fuzzy : BOOLEAN, normalised : BOOLEAN, caseSensitive : BOOLEAN]

\* Searching a dictionary of plain entries: every combination of the flags,
\* after WithoutLevenshtein.
InitSearch == InitConfigured(AllFlags, {zeroScheme})

NextSearch == Insert \/ Delete \/ Search \/ SearchAll

SpecSearch == InitSearch /\ [][NextSearch]_vars

\* ------------------------------------------------- the store: C1, C2, C3

\* C1: FindMeta(w) called immediately after InsertWithMeta(w, m) returns
\* (m, true), whatever was inserted or deleted before.
C1_FindMetaAfterInsertWithMeta ==
  [][(/\ last.op = "InsertWithMeta"
      /\ last'.op = "FindMeta"
      /\ last'.word = last.word)
     => last'.result = <<last.meta, TRUE>>]_vars

\* C2: FindMeta(w) called after Delete(w), nothing inserted in between,
\* returns found = false.
C2_FindMetaAfterDelete ==
  [][(/\ last.op = "Delete"
      /\ last'.op = "FindMeta"
      /\ last'.word = last.word)
     => last'.result[2] = FALSE]_vars

\* The words stored at terminal nodes.
terminalWords == {root[p].word : p \in {q \in DOMAIN root : root[q].word # EmptyString}}

\* C3: with normalisation or case-insensitivity on, every registry key has a
\* node at the path of its code points that holds the key as its word, and
\* every terminal word has a registry entry with at least one original.
C3_RegistryMatchesTerminals ==
  (normalised \/ ~caseSensitive) =>
    /\ \A key \in DOMAIN originalDict :
         key \in DOMAIN root /\ root[key].word = key
    /\ \A word \in terminalWords :
         word \in DOMAIN originalDict /\ Len(originalDict[word]) >= 1

\* ------------------------------------------------ searching: C4, C6, C7

min(a, b) == IF a < b THEN a ELSE b

\* The ranked canonical hits of the search that returned last.  The ranking
\* is the same for every order of the children (C8), so one order serves.
lastHits ==
  rankedHits(trie, config, last.word, CHOOSE ord \in ChildOrders : TRUE)

\* C4: Search(query, limit) with a positive limit returns what the first
\* min(limit, n) ranked canonical hits expand to: their originals when
\* normalisation or case-insensitivity is on, themselves otherwise.
C4_LimitThenExpand ==
  (last.op = "Search" /\ last.limit > 0 /\ Len(last.word) > 0) =>
    LET kept == SubSeq(lastHits, 1, min(last.limit, Len(lastHits)))
    IN last.result = IF (~normalised) /\ caseSensitive THEN kept
                     ELSE expand(originalDict, kept)

isPrefix(q, w) == Len(q) <= Len(w) /\ SubSeq(w, 1, Len(q)) = q

\* A set of strings in lexicographic order.
RECURSIVE sortStrings(_)
sortStrings(S) ==
  IF S = {} THEN << >>
  ELSE LET first == CHOOSE a \in S : \A b \in S \ {a} : StrLess(a, b)
       IN <<first>> \o sortStrings(S \ {first})

noFeatures ==
  /\ caseSensitive /\ ~fuzzy /\ ~normalised
  /\ levenshteinScheme = zeroScheme.levenshteinScheme
  /\ levenshteinIntervals = zeroScheme.levenshteinIntervals

hasWildcard(q) == \E i \in 1..Len(q) : q[i] = Wildcard

\* C6: in the no-features configuration SearchAll(q), q non-empty and without
\* the wildcard, returns the inserted and not deleted strings that have q as
\* a prefix, each once, in lexicographic order.
C6_NoFeaturesPrefixSearch ==
  (last.op = "SearchAll" /\ noFeatures /\ Len(last.word) > 0 /\ ~hasWildcard(last.word)) =>
    last.result = sortStrings({w \in DOMAIN hist : isPrefix(last.word, w)})

\* C7: a query whose canonical key is empty returns an empty result from
\* Search, SearchAll and SearchAllMeta.
C7_EmptyCanonicalQuery ==
  (/\ last.op \in {"Search", "SearchAll", "SearchAllMeta"}
   /\ canonical(last.word, normalised, caseSensitive) = EmptyString)
  => last.result = << >>

\* ------------------------------------------------------- metadata: C5

\* Searching a dictionary of entries with metadata: the configurations that
\* keep a registry, with and without fuzzy matching, without edit distance
\* and with a budget of one.
InitMeta ==
  InitConfigured({f \in AllFlags : f.normalised \/ ~f.caseSensitive},
                 {zeroScheme, customScheme(0 :> 1)})

NextMeta == InsertWithMeta \/ Delete \/ SearchAllMeta

SpecMeta == InitMeta /\ [][NextMeta]_vars

\* One row per original given under the key since its last Delete, in the
\* order given, each with the metadata given last under the key.
RECURSIVE rowsOf(_, _)
rowsOf(h, hits) ==
  IF hits = << >> THEN << >>
  ELSE LET key == Head(hits)
           own == IF key \in DOMAIN h
                  THEN [i \in 1..Len(h[key].originals) |->
                          [Word |-> h[key].originals[i], Meta |-> h[key].meta]]
                  ELSE << >>
       IN own \o rowsOf(h, Tail(hits))

\* C5: with normalisation or case-insensitivity on, SearchAllMeta emits for
\* every matched canonical key one record per original inserted under it, in
\* insertion order, each with the metadata of the most recent insert under
\* that key, which is what FindMeta returns for the record's word.
C5_MetaRows ==
  (last.op = "SearchAllMeta" /\ Len(last.word) > 0 /\ (normalised \/ ~caseSensitive)) =>
    /\ last.result = rowsOf(hist, lastHits)
    /\ \A i \in 1..Len(last.result) :
         findMeta(trie, normalised, caseSensitive, last.result[i].Word)
           = <<last.result[i].Meta, TRUE>>

\* A search that returned two originals of one key, given with different
\* metadata, and one that returned two keys with different metadata.
C5_Witness_SameKey ==
  /\ last.op = "SearchAllMeta"
  /\ Len(last.result) = 2
  /\ \E key \in DOMAIN hist :
       /\ Len(hist[key].originals) = 2
       /\ hist[key].originals[1] # hist[key].originals[2]
       /\ hist[key].meta = "m2"
       /\ last.result[1].Word = hist[key].originals[1]
       /\ last.result[2].Meta = "m2"

\* --------------------------------------------------------- ranking: C8

\* A case-sensitive trie without normalisation, whose searches return the
\* canonical hits themselves, with a budget of one edit.
InitRank ==
  InitConfigured({f \in AllFlags : f.caseSensitive /\ ~f.normalised},
                 {customScheme(0 :> 1)})

NextRank == Insert \/ SearchAll

SpecRank == InitRank /\ [][NextRank]_vars

\* Every record any traversal path of the last search offered.
lastPaths(ord) == collectionOf(trie, config, last.word, ord).paths
lastScores(ord) == collectionOf(trie, config, last.word, ord).scores

anyOrder == CHOOSE ord \in ChildOrders : TRUE

\* The smallest distance any path reaches the word at.
bestDistance(paths, w) ==
  CHOOSE d \in {p[2] : p \in {x \in paths : x[1] = w}} :
    \A p \in paths : p[1] = w => d <= p[2]

\* The word is reached at its best distance on a path without a fuzzy descent.
plainlyReached(paths, w) == <<w, bestDistance(paths, w), FALSE>> \in paths

\* The order the claim gives two hits.
rankedBefore(paths, a, b) ==
  \/ bestDistance(paths, a) < bestDistance(paths, b)
  \/ /\ bestDistance(paths, a) = bestDistance(paths, b)
     /\ \/ plainlyReached(paths, a) /\ ~plainlyReached(paths, b)
        \/ /\ plainlyReached(paths, a) = plainlyReached(paths, b)
           /\ StrLess(a, b)

rankingCase == last.op = "SearchAll" /\ Len(last.word) > 0 /\ caseSensitive /\ ~normalised

\* The hits are the words some path reached, each once.
C8_HitsAreReached ==
  rankingCase =>
    /\ {last.result[i] : i \in 1..Len(last.result)} = {p[1] : p \in lastPaths(anyOrder)}
    /\ \A i, j \in 1..Len(last.result) : i # j => last.result[i] # last.result[j]

\* The record kept for a word is at the smallest distance any path reached it at.
C8_KeptIsBest ==
  rankingCase =>
    \A w \in DOMAIN lastScores(anyOrder) :
      lastScores(anyOrder)[w].levenshtein = bestDistance(lastPaths(anyOrder), w)

\* Whatever order the children are visited in, the collection and the result
\* are the same.
C8_OrderIndependent ==
  rankingCase =>
    \A ord \in ChildOrders :
      /\ lastScores(ord) = lastScores(anyOrder)
      /\ search(trie, config, last.word, 0, ord) = last.result

\* Ascending by distance, then hits reached without the fuzzy relaxation
\* before hits reached only with it, then lexicographically.
C8_Ordered ==
  rankingCase =>
    \A i, j \in 1..Len(last.result) :
      i < j => rankedBefore(lastPaths(anyOrder), last.result[i], last.result[j])

\* C8: the canonical hits are ordered by distance, then hits reached on a
\* path without the fuzzy relaxation before hits reached only with it, then
\* lexicographically; the record kept per word is the best over all paths,
\* and the order does not depend on the order the children are visited in.
C8_Ranking ==
  C8_HitsAreReached /\ C8_KeptIsBest /\ C8_OrderIndependent /\ C8_Ordered

\* ---------------------------------------------------- configuration: C9

\* A word and a prefix of it.
ConcWords == {<<97>>, <<97, 97>>}

\* Insert(entry) of one of the two words.
InsertOne ==
  \E w \in ConcWords : insertBatch(<<[word |-> w, meta |-> Nil]>>, "Insert", w, Nil)

\* The builder calls, and searches of the trie they leave.
NextConfig ==
  \/ WithFuzzy \/ WithoutFuzzy
  \/ WithoutLevenshtein \/ DefaultLevenshtein \/ CustomLevenshtein
  \/ InsertOne \/ SearchAll

SpecConfig == Init /\ [][NextConfig]_vars

\* The scan of maxDistance stops at an interval that is a key of the scheme.
scanDecides(scheme, intervals, n) ==
  \E i \in 1..Len(intervals) : n >= intervals[i] /\ intervals[i] \in DOMAIN scheme

isDescending(intervals) ==
  \A i, j \in 1..Len(intervals) : i < j => intervals[i] > intervals[j]

\* C9: CustomLevenshtein(scheme) without a key 0 panics in the call and
\* leaves the schedule as it was; with a key 0 the scheme is installed, its
\* thresholds in descending order, so that the budget of every later search
\* is read from the scheme, and no search ends in a panic.
C9_CustomLevenshteinFailsFast ==
  [][/\ last'.op = "CustomLevenshtein" =>
          IF 0 \notin DOMAIN last'.result
          THEN /\ panicked'
               /\ levenshteinScheme' = levenshteinScheme
               /\ levenshteinIntervals' = levenshteinIntervals
          ELSE /\ ~panicked'
               /\ levenshteinScheme' = last'.result
               /\ {levenshteinIntervals'[i] : i \in 1..Len(levenshteinIntervals')}
                    = DOMAIN last'.result
               /\ isDescending(levenshteinIntervals')
               /\ \A n \in 0..MaxLen :
                    scanDecides(levenshteinScheme', levenshteinIntervals', n)
     /\ last'.op = "SearchAll" => ~panicked'
     /\ panicked => last.op = "CustomLevenshtein" /\ 0 \notin DOMAIN last.result]_vars

\* A scheme with the one key 2 was rejected: the call panicked.
C9_Witness_Rejected ==
  panicked /\ last.op = "CustomLevenshtein" /\ DOMAIN last.result = {2}

\* ------------------------------------------------------ concurrency: C10

\* The entries of the calls that have not been applied yet.
pendingInserts(gs) ==
  LET left(g) == IF gs[g].op = "Delete" THEN 0 ELSE Len(gs[g].batch)
  IN left(1) + left(2)

\* A goroutine calls a mutator: it reaches the Lock of the call.
begin(g, op, batch) ==
  /\ ~panicked
  /\ goroutines[g] = idle
  /\ goroutines' = [goroutines EXCEPT
                      ![g] = [pc |-> "waiting", op |-> op, batch |-> batch, done |-> 0]]
  /\ UNCHANGED <<mu, panicked, last>>
  /\ storeUnchanged /\ configUnchanged

beginInsert(g, op, batch) ==
  /\ entryCount + pendingInserts(goroutines) + Len(batch) <= MaxEntries
  /\ begin(g, op, batch)

GoInsert(g) ==
  \E ws \in StringsUpTo(ConcWords, MaxBatch) \ {EmptyString} :
    beginInsert(g, "Insert", withNil(ws))

GoInsertWithMeta(g) ==
  \E w \in ConcWords, m \in Metas :
    beginInsert(g, "InsertWithMeta", <<[word |-> w, meta |-> m]>>)

GoBulkInsertWithMeta(g) ==
  \E b \in StringsUpTo([word : ConcWords, meta : {"m1"}], MaxBatch) \ {EmptyString} :
    /\ \A i, j \in 1..Len(b) : i # j => b[i].word # b[j].word
    /\ beginInsert(g, "BulkInsertWithMeta", b)

GoDelete(g) ==
  \E w \in ConcWords : begin(g, "Delete", <<[word |-> w, meta |-> Nil]>>)

\* A Lock that never waits.
lockAlwaysFree(m) == m \in {0} \cup Goroutines

\* A sync.RWMutex is free for Lock when no goroutine holds it.
lockFree(m) == m = 0

\* t.mu.Lock()
Lock(g) ==
  /\ goroutines[g].pc = "waiting"
  /\ lockFree(mu)
  /\ mu' = g
  /\ goroutines' = [goroutines EXCEPT ![g].pc = "critical"]
  /\ UNCHANGED <<panicked, last>>
  /\ storeUnchanged /\ configUnchanged

\* One turn of the loop of an insert call, or the body of Delete.
Mutate(g) ==
  /\ goroutines[g].pc = "critical"
  /\ goroutines[g].batch # << >>
  /\ LET e == Head(goroutines[g].batch)
         t == IF goroutines[g].op = "Delete"
              THEN deleteInternal(trie, normalised, caseSensitive, e.word)
              ELSE insertInternal(trie, normalised, caseSensitive, e.word, e.meta)
     IN /\ root' = t.nodes
        /\ originalDict' = t.dict
        /\ hist' = IF goroutines[g].op = "Delete"
                   THEN histDelete(hist, normalised, caseSensitive, e.word)
                   ELSE histInsert(hist, normalised, caseSensitive, e.word, e.meta)
  /\ goroutines' = [goroutines EXCEPT ![g].batch = Tail(@), ![g].done = @ + 1]
  /\ UNCHANGED <<mu, panicked, last>>
  /\ configUnchanged

\* defer t.mu.Unlock()
Unlock(g) ==
  /\ goroutines[g].pc = "critical"
  /\ goroutines[g].batch = << >>
  /\ mu' = 0
  /\ goroutines' = [goroutines EXCEPT ![g] = idle]
  /\ UNCHANGED <<panicked, last>>
  /\ storeUnchanged /\ configUnchanged

NextConc ==
  \E g \in Goroutines :
    \/ GoInsert(g) \/ GoInsertWithMeta(g) \/ GoBulkInsertWithMeta(g) \/ GoDelete(g)
    \/ Lock(g) \/ Mutate(g) \/ Unlock(g)

SpecConc == Init /\ [][NextConc]_vars

inMutation(gs) == {g \in Goroutines : gs[g].pc = "critical"}

\* C10: of the goroutines calling Insert, InsertWithMeta, BulkInsertWithMeta
\* and Delete at most one is inside its mutation of the node tree and the
\* registry, and while a goroutine is inside its mutation every change of
\* the tree and the registry is a step of that goroutine's own call, from
\* its first entry to its last.
C10_MutatorsExcludeEachOther ==
  [][/\ Cardinality(inMutation(goroutines')) <= 1
     /\ \A g \in inMutation(goroutines) :
          <<root', originalDict'>> # <<root, originalDict>> =>
            /\ goroutines[g].batch # << >>
            /\ goroutines'[g].pc = "critical"
            /\ goroutines'[g].done = goroutines[g].done + 1
            /\ \A other \in Goroutines \ {g} : goroutines'[other] = goroutines[other]]_vars

\* One goroutine between the two entries of its Insert while the other has
\* called Delete and waits for the lock.
C10_Witness_MidBatch ==
  \E g, other \in Goroutines :
    /\ goroutines[g].pc = "critical"
    /\ goroutines[g].op = "Insert"
    /\ goroutines[g].done = 1
    /\ Len(goroutines[g].batch) = 1
    /\ goroutines[other].pc = "waiting"
    /\ goroutines[other].op = "Delete"

\* -------------------------------------------------- edit budget: C11

\* The longest query whose budget is read from the schedule.
MaxQueryLen == 6

\* Queries of letters and combining marks, long enough for every threshold.
LongQueries == StringsUpTo({97, CombiningAcute}, MaxQueryLen) \ {EmptyString}

\* Search up to the call of t.maxDistance(search): the query is made
\* canonical and its budget is read from the schedule.
MaxDistance ==
  /\ sequential
  /\ \E q \in LongQueries :
       last' = call("maxDistance", q, Nil,
                    maxDistance(levenshteinScheme, levenshteinIntervals,
                                canonical(q, normalised, caseSensitive)))
  /\ storeUnchanged /\ configUnchanged /\ concurrencyUnchanged

NextBudget ==
  \/ WithNormalisation \/ WithoutNormalisation
  \/ WithoutLevenshtein \/ DefaultLevenshtein \/ CustomLevenshtein
  \/ MaxDistance

SpecBudget == Init /\ [][NextBudget]_vars

\* The value of the schedule at its largest threshold not above n.
scheduleValue(scheme, n) ==
  LET below == {k \in DOMAIN scheme : k <= n}
  IN scheme[CHOOSE k \in below : \A other \in below : other <= k]

\* The code points of the canonical query of the call made last.
lastQueryLen == Len(canonical(last.word, normalised, caseSensitive))

\* C11: the edit budget of a search is the value of the schedule at the
\* largest threshold that does not exceed the number of code points of the
\* canonical query: under the default schedule 0 for lengths 1-2, 1 for
\* lengths 3-4 and 2 from length 5 on, and 0 for every length under
\* WithoutLevenshtein.
C11_BudgetFromSchedule ==
  last.op = "maxDistance" =>
    /\ last.result = scheduleValue(levenshteinScheme, lastQueryLen)
    /\ (/\ levenshteinScheme = defaultScheme.levenshteinScheme
        /\ levenshteinIntervals = defaultScheme.levenshteinIntervals)
         => /\ lastQueryLen \in 1..2 => last.result = 0
            /\ lastQueryLen \in 3..4 => last.result = 1
            /\ lastQueryLen >= 5 => last.result = 2
    /\ (/\ levenshteinScheme = zeroScheme.levenshteinScheme
        /\ levenshteinIntervals = zeroScheme.levenshteinIntervals)
         => last.result = 0

\* A query of six code points, five of them left by normalisation, under the
\* default schedule: the budget is 2.
C11_Witness_LongDefault ==
  /\ last.op = "maxDistance"
  /\ levenshteinIntervals = defaultScheme.levenshteinIntervals
  /\ normalised
  /\ Len(last.word) = 6
  /\ lastQueryLen = 5
  /\ last.result = 2

\* ------------------------------------------- the calls of collect: C12

\* One call of collect: its arguments, and in via the branch that made it.
frame(via, word, path, distance, budget, fuzzyAllowed, fuzzyUsed) ==
  [via |-> via, word |-> word, path |-> path, distance |-> distance,
   maxDistance |-> budget, fuzzyAllowed |-> fuzzyAllowed,
   fuzzyUsed |-> fuzzyUsed]

\* The call returns after recording the node: it makes no call.
returnsAtEnd(nodes, f) == f.word = EmptyString /\ nodes[f.path].word # EmptyString

\* The two plain calls, with the fuzzy descent left allowed after them.
plainCallsKeepFuzzy(nodes, f) ==
  LET character == decodeRune(f.word)
      subword   == restOf(f.word)
  IN (IF character = Wildcard
      THEN {frame("wildcard", subword, f.path, f.distance, f.maxDistance,
                  f.fuzzyAllowed, f.fuzzyUsed)}
      ELSE {})
     \cup
     (IF hasChild(nodes, f.path, character)
      THEN {frame("exact", subword, Append(f.path, character), f.distance,
                  f.maxDistance, f.fuzzyAllowed, f.fuzzyUsed)}
      ELSE {})

\* The wildcard call and the exact continuation.
plainCalls(nodes, f) ==
  LET character == decodeRune(f.word)
      subword   == restOf(f.word)
  IN (IF character = Wildcard
      THEN {frame("wildcard", subword, f.path, f.distance, f.maxDistance,
                  FALSE, f.fuzzyUsed)}
      ELSE {})
     \cup
     (IF hasChild(nodes, f.path, character)
      THEN {frame("exact", subword, Append(f.path, character), f.distance,
                  f.maxDistance, FALSE, f.fuzzyUsed)}
      ELSE {})

\* Substitution and insertion per child, and the deletion after the loop.
editCalls(nodes, f) ==
  IF f.distance < f.maxDistance
  THEN UNION {{frame("substitution", <<r>> \o restOf(f.word), f.path,
                     f.distance + 1, f.maxDistance, FALSE, f.fuzzyUsed),
               frame("insertion", <<r>> \o f.word, f.path,
                     f.distance + 1, f.maxDistance, FALSE, f.fuzzyUsed)} :
              r \in childRunes(nodes, f.path)}
       \cup {frame("deletion", restOf(f.word), f.path, f.distance + 1,
                   f.maxDistance, FALSE, FALSE)}
  ELSE {}

\* The fuzzy descent per child, in the branch of a budget left and in the
\* branch of distance 0.
fuzzyCalls(nodes, f) ==
  IF f.fuzzyAllowed /\ (f.distance < f.maxDistance \/ f.distance = 0)
  THEN {frame("fuzzy", f.word, Append(f.path, r), f.distance, f.maxDistance,
              TRUE, TRUE) : r \in childRunes(nodes, f.path)}
  ELSE {}

\* The recursive calls one call of collect makes.
collectCalls(nodes, f) ==
  IF returnsAtEnd(nodes, f) THEN {}
  ELSE plainCalls(nodes, f) \cup editCalls(nodes, f) \cup fuzzyCalls(nodes, f)

\* Search up to its call of collect at the root.
collectFromRoot ==
  /\ reading
  /\ \E q \in Queries \ {EmptyString} :
       LET query == canonical(q, normalised, caseSensitive)
       IN last' = call("collect", q, Nil,
                       frame("Search", query, EmptyString, 0,
                             maxDistance(levenshteinScheme, levenshteinIntervals, query),
                             fuzzy, FALSE))
  /\ storeUnchanged /\ configUnchanged /\ concurrencyUnchanged

\* One of the recursive calls of the call of collect that is running.
collectCall ==
  /\ ~panicked
  /\ mu = 0
  /\ last.op = "collect"
  /\ \E f \in collectCalls(root, last.result) : last' = [last EXCEPT !.result = f]
  /\ storeUnchanged /\ configUnchanged /\ concurrencyUnchanged

\* A case-sensitive trie without normalisation, with and without fuzzy
\* matching, with a budget of 0 and with a budget of 1.
InitTraverse ==
  InitConfigured({f \in AllFlags : f.caseSensitive /\ ~f.normalised},
                 {zeroScheme, customScheme(0 :> 1)})

NextTraverse == Insert \/ collectFromRoot \/ collectCall

SpecTraverse == InitTraverse /\ [][NextTraverse]_vars

editBranches == {"substitution", "insertion", "deletion"}

\* The call f makes the fuzzy descent into the child r.
descendsInto(nodes, f, r) ==
  \E g \in collectCalls(nodes, f) :
    g.word = f.word /\ g.path = Append(f.path, r) /\ g.distance = f.distance

\* A call of collect that goes on to its branches.
traversalStep == last.op = "collect" /\ ~returnsAtEnd(root, last.result)

lastKey == canonical(last.word, normalised, caseSensitive)

\* The keys a trie of the model can hold, and the empty key.
CanonicalKeys == StringsUpTo(Alphabet, MaxLen)

\* C13: Delete(w) removes only nodes on the path of w's canonical key that
\* are left without children and without a word, from the end of the path
\* up to the first node that keeps a child or a word, and never the root;
\* every other node is as it was, and for every other canonical key the
\* terminal node, the result of FindMeta and the registry entry are as they
\* were, also when the path of w is not in the trie.
C13_DeleteFrame ==
  [][last'.op = "Delete" =>
       LET key     == lastKey'
           removed == DOMAIN root \ DOMAIN root'
       IN /\ DOMAIN root' \subseteq DOMAIN root
          /\ EmptyString \in DOMAIN root'
          /\ \A p \in removed :
               /\ p # EmptyString /\ isPrefix(p, key)
               /\ root[p].word = EmptyString \/ p = key
               /\ \A q \in DOMAIN root' : ~isPrefix(p, q)
          /\ key \in DOMAIN root =>
               \A p \in DOMAIN root' \ {EmptyString} :
                 isPrefix(p, key) =>
                   childRunes(root', p) # {} \/ root'[p].word # EmptyString
          /\ key \notin DOMAIN root => root' = root
          /\ \A q \in DOMAIN root' : q # key => root'[q] = root[q]
          /\ \A k \in CanonicalKeys \ {key} :
               /\ findMeta(trie', FALSE, TRUE, k) = findMeta(trie, FALSE, TRUE, k)
               /\ (k \in DOMAIN originalDict') = (k \in DOMAIN originalDict)
               /\ originalsOf(originalDict', k) = originalsOf(originalDict, k)]_vars

\* After the Delete of a key of two code points its node is gone and the
\* node above it is kept, with its word, its metadata and its registry entry.
C13_Witness_StopsAtTerminal ==
  /\ last.op = "Delete"
  /\ Len(lastKey) = 2
  /\ lastKey \notin DOMAIN root
  /\ LET parent == SubSeq(lastKey, 1, 1)
     IN /\ parent \in DOMAIN root
        /\ root[parent].word = parent
        /\ root[parent].meta = "m1"
        /\ childRunes(root, parent) = {}
        /\ parent \in DOMAIN originalDict

====
